---------------------------- MODULE Spec2Model ----------------------------
(***************************************************************************)
(* Worker supervision (StreamService), priority-queued job dispatch        *)
(* (AIService) and alert records (Alert model, AlertService) of the video  *)
(* management server.  Time is counted in seconds.                         *)
(***************************************************************************)
EXTENDS Integers, Sequences, FiniteSets, Bags, TLC

VARIABLES
    now,              \* wall clock (Date.now()), in seconds
    processingQueue,  \* AIService.processingQueue
    isProcessing,     \* AIService.isProcessing
    drainDue,         \* the drain interval has expired, its callback has not run yet
    inflight,         \* queue items whose processQueueItem is awaiting
    submitted,        \* number of items pushed so far (submission order)
    models,           \* AIService.models: the model types loaded
    batch,            \* the batchProcessStreams call in progress
    notificationQueue, \* AlertService.notificationQueue
    results,          \* Result collection: saved results per stream
    alerts,           \* Alert collection, in insertion order
    activeStreams,    \* StreamService.activeStreams
    workers,          \* StreamService.workers
    thread,           \* the worker threads created so far
    created,          \* number of worker threads created so far
    mailbox,          \* messages posted by worker threads, not handled yet
    calls,            \* startStream/stopStream/restartStream calls in progress
    streamStatus,     \* Stream.status as stored
    statistics        \* Stream.statistics as stored

schedVars == <<processingQueue, isProcessing, drainDue, inflight, submitted,
               models, batch, notificationQueue, notificationQueue>>
supVars == <<activeStreams, workers, thread, created, mailbox, calls>>
dbVars == <<results, alerts, streamStatus, statistics>>
vars == <<now, schedVars, supVars, dbVars>>

-----------------------------------------------------------------------------
(* Bounds of the model *)

MaxJobs == 3
MaxTime == 2
MaxDetections == 1
MaxWorkers == 2
MaxCalls == 2
MaxFrames == 1
MaxAlerts == 3
MaxWatch == 62
MaxStored == 1
MaxBatch == 2
MaxTicks == 2
QueueCapacity == 2
MaxDays == 1
MaxStops == 2
MaxNotifications == 2
MaxQueued == 3
SoftWatermark == 1

WorkerIds == 1..MaxWorkers

Feeds == {"F1", "F2"}

(* the streams the scheduler is handed, and those the supervisor is called for *)
QueuedFeeds == {"F1"}
CalledFeeds == {"F1"}

(* Stream.metadata.priority as stored; "none" is an absent value *)
StoredPriorities == {"critical", "high", "medium", "low", "none"}

-----------------------------------------------------------------------------
(* Alert model *)

NullDate == 0

ExpirySeconds == 86400

PreSave(a) ==
    LET a1 == IF a.expiresAt = NullDate /\ a.severity # "critical"
              THEN [a EXCEPT !.expiresAt = now + ExpirySeconds]
              ELSE a
    IN  IF a1.severity = "critical" THEN [a1 EXCEPT !.expiresAt = NullDate] ELSE a1

NewAlert(streamId, type, title, severity) ==
    PreSave([streamId |-> streamId, type |-> type, title |-> title,
             severity |-> severity, status |-> "active",
             timestamp |-> now, expiresAt |-> NullDate,
             acknowledgedAt |-> NullDate, resolvedAt |-> NullDate])

DetectionTitle(n) == ToString(n) \o " objects detected"

createDetectionAlert(streamId, n) ==
    Append(alerts, NewAlert(streamId, "detection", DetectionTitle(n),
                            IF n > 5 THEN "high" ELSE "medium"))

createSystemAlert(streamId, type, title, severity) ==
    Append(alerts, NewAlert(streamId, type, title, severity))

-----------------------------------------------------------------------------
(* AIService: the processing queue and its drain loop *)

PriorityOrder(p) ==
    CASE p = "critical" -> 4
      [] p = "high"     -> 3
      [] p = "medium"   -> 2
      [] p = "low"      -> 1
      [] OTHER          -> 2

(* the comparator with the priorities subtracted the other way round *)
CompareLowFirst(a, b) ==
    IF PriorityOrder(a.priority) # PriorityOrder(b.priority)
    THEN PriorityOrder(a.priority) - PriorityOrder(b.priority)
    ELSE a.timestamp - b.timestamp

(* the comparator with the timestamps subtracted the other way round *)
CompareNewestFirst(a, b) ==
    IF PriorityOrder(a.priority) # PriorityOrder(b.priority)
    THEN PriorityOrder(b.priority) - PriorityOrder(a.priority)
    ELSE b.timestamp - a.timestamp

(* the comparator handed to Array.prototype.sort: negative puts a first *)
Compare(a, b) ==
    IF PriorityOrder(a.priority) # PriorityOrder(b.priority)
    THEN PriorityOrder(b.priority) - PriorityOrder(a.priority)
    ELSE a.timestamp - b.timestamp

(* Array.prototype.sort is stable: x goes behind every element it does not precede *)
RECURSIVE InsertSorted(_, _)
InsertSorted(s, x) ==
    IF s = <<>> THEN <<x>>
    ELSE IF Compare(x, Head(s)) < 0 THEN <<x>> \o s
    ELSE <<Head(s)>> \o InsertSorted(Tail(s), x)

RECURSIVE SortQueue(_)
SortQueue(q) ==
    IF q = <<>> THEN <<>>
    ELSE InsertSorted(SortQueue(SubSeq(q, 1, Len(q) - 1)), q[Len(q)])

QueueItem(streamId, stored) ==
    [seq |-> submitted + 1, streamId |-> streamId,
     priority |-> IF stored = "none" THEN "medium" ELSE stored,
     timestamp |-> now]

(* the model types loadModels registers; the one the requests name *)
AvailableModels == {"object-detection", "defect-analysis"}
RequestedModel == "object-detection"

(* what processStream answers: the status of its return value, or the *)
(* message of the error it throws                                     *)
ProcessStreamOutcome(streamId, modelType) ==
    IF modelType \notin models THEN "AI model not found"
    ELSE IF streamId \notin Feeds THEN "Stream not found"
    ELSE "queued"

(* processStream, from the point where Stream.findById has answered *)
ProcessStream(streamId, stored) ==
    /\ ProcessStreamOutcome(streamId, RequestedModel) = "queued"
    /\ submitted < MaxJobs
    /\ processingQueue' = Append(processingQueue, QueueItem(streamId, stored))
    /\ submitted' = submitted + 1
    /\ UNCHANGED <<now, isProcessing, drainDue, inflight, models, batch, notificationQueue,
                   supVars, dbVars>>

(* an identity for a new queue item that no waiting or executing item has *)
FreshSeq ==
    LET used == {processingQueue[i].seq : i \in DOMAIN processingQueue}
                   \cup {item.seq : item \in inflight}
    IN  CHOOSE k \in 1..(MaxQueued + 2) : k \notin used

(* processStream under a load that never ends: the item is queued as by *)
(* ProcessStream, submissions are not counted                            *)
ProcessStreamSteady(streamId, stored) ==
    /\ ProcessStreamOutcome(streamId, RequestedModel) = "queued"
    /\ Len(processingQueue) < MaxQueued
    /\ processingQueue' = Append(processingQueue,
                                 [QueueItem(streamId, stored) EXCEPT !.seq = FreshSeq])
    /\ UNCHANGED <<now, isProcessing, drainDue, inflight, submitted, models, batch, notificationQueue,
                   supVars, dbVars>>

(* setInterval(..., 1000) of startQueueProcessing expires *)
DrainTimer ==
    /\ ~drainDue
    /\ drainDue' = TRUE
    /\ UNCHANGED <<now, processingQueue, isProcessing, inflight, submitted,
                   models, batch, notificationQueue,
                   supVars, dbVars>>

(* the guard without the test of isProcessing *)
DrainGuardNoFlag == ~(Len(processingQueue) = 0)

DrainGuard == ~(isProcessing \/ Len(processingQueue) = 0)

(* a shift that empties the queue *)
ShiftAll(q) == <<>>

(* Array.prototype.shift: what is left of the queue *)
Shift(q) == Tail(q)

(* the interval callback up to its await *)
DrainTick ==
    /\ drainDue
    /\ drainDue' = FALSE
    /\ IF DrainGuard
       THEN LET sorted == SortQueue(processingQueue)
            IN  /\ isProcessing' = TRUE
                /\ processingQueue' = Shift(sorted)
                /\ inflight' = inflight \cup {Head(sorted)}
       ELSE UNCHANGED <<processingQueue, isProcessing, inflight>>
    /\ UNCHANGED <<now, submitted, models, batch, notificationQueue, supVars, dbVars>>

(* a callback without the finally block: the flag is reset only after a *)
(* job that succeeded                                                   *)
ProcessQueueItemNoFinally(item, outcome, n) ==
    /\ item \in inflight
    /\ inflight' = inflight \ {item}
    /\ isProcessing' = (outcome # "ok")
    /\ CASE outcome = "ok" ->
              /\ results' = [results EXCEPT ![item.streamId] = @ + 1]
              /\ alerts' = IF n > 0 THEN createDetectionAlert(item.streamId, n)
                           ELSE alerts
         [] outcome = "failed" ->
              /\ alerts' = createSystemAlert(item.streamId, "error",
                                             "AI Processing Error", "high")
              /\ UNCHANGED results
         [] OTHER -> UNCHANGED <<results, alerts>>
    /\ UNCHANGED <<now, processingQueue, drainDue, submitted, models, batch, notificationQueue,
                   supVars,
                   streamStatus, statistics>>

(* processQueueItem settles; the callback's finally block runs.            *)
(* outcome: "ok" with n significant detections, "failed" with the error    *)
(* alert saved, "alertFailed" when saving the error alert throws too       *)
ProcessQueueItem(item, outcome, n) ==
    /\ item \in inflight
    /\ inflight' = inflight \ {item}
    /\ isProcessing' = FALSE
    /\ CASE outcome = "ok" ->
              /\ results' = [results EXCEPT ![item.streamId] = @ + 1]
              /\ alerts' = IF n > 0 THEN createDetectionAlert(item.streamId, n)
                           ELSE alerts
         [] outcome = "failed" ->
              /\ alerts' = createSystemAlert(item.streamId, "error",
                                             "AI Processing Error", "high")
              /\ UNCHANGED results
         [] OTHER -> UNCHANGED <<results, alerts>>
    /\ UNCHANGED <<now, processingQueue, drainDue, submitted, models, batch, notificationQueue,
                   supVars,
                   streamStatus, statistics>>

(* confidences in hundredths; what parameters.confidence of a request is: *)
(* absent, or a number                                                    *)
DefaultConfidence == 70
RequestedConfidence == 90
Confidences == {75, 95}
GivenConfidences == {[given |-> FALSE, value |-> 0],
                     [given |-> TRUE, value |-> RequestedConfidence]}
DetectionLists == UNION {[1..n -> Confidences] : n \in 0..MaxDetections}

(* parameters.confidence of the queue item: { ...model.parameters,         *)
(* ...parameters } holds the request's number, or else the model's         *)
(* descriptor object { type, default, min, max }                           *)
MergedConfidence(c) ==
    IF c.given THEN [isNumber |-> TRUE, value |-> c.value]
    ELSE [isNumber |-> FALSE, value |-> DefaultConfidence]

(* detections.filter(d => d.confidence > parameters.confidence): a number *)
(* compared with an object is never greater                               *)
Significant(detections, p) ==
    IF p.isNumber THEN SelectSeq(detections, LAMBDA d : d > p.value) ELSE <<>>

(* processQueueItem settles with a result that carries these detections *)
ProcessOutcome(item, c, detections) ==
    ProcessQueueItem(item, "ok", Len(Significant(detections, MergedConfidence(c))))

(* a report entry that is a success whatever processStream answered *)
ReportEntryAlwaysOk(streamId, outcome) == [streamId |-> streamId, success |-> TRUE]

(* the entry batchProcessStreams pushes for one stream *)
ReportEntry(streamId, outcome) ==
    [streamId |-> streamId, success |-> outcome = "queued"]

NoBatch == [active |-> FALSE, streamIds |-> <<>>, modelType |-> "none", results |-> <<>>]

(* the ids a request can name: the streams handed to the scheduler and an *)
(* id no stream has                                                       *)
RequestedIds == QueuedFeeds \cup {"F0"}
RequestedModels == {RequestedModel, "no-such-model"}
BatchInputs == UNION {[1..n -> RequestedIds] : n \in 1..MaxBatch}
BatchPriorities == {"high", "none"}

(* batchProcessStreams is called *)
BatchProcessStreams(streamIds, modelType) ==
    /\ ~batch.active
    /\ batch' = [active |-> TRUE, streamIds |-> streamIds, modelType |-> modelType,
                 results |-> <<>>]
    /\ UNCHANGED <<now, processingQueue, isProcessing, drainDue, inflight, submitted,
                   models, notificationQueue, supVars, dbVars>>

(* one iteration of the loop of batchProcessStreams: processStream for the *)
(* next id, and the entry pushed for it                                    *)
BatchStep(stored) ==
    LET streamId == batch.streamIds[Len(batch.results) + 1]
        outcome == ProcessStreamOutcome(streamId, batch.modelType)
    IN  /\ batch.active
        /\ Len(batch.results) < Len(batch.streamIds)
        /\ IF outcome = "queued"
           THEN /\ submitted < MaxJobs
                /\ processingQueue' = Append(processingQueue, QueueItem(streamId, stored))
                /\ submitted' = submitted + 1
           ELSE UNCHANGED <<processingQueue, submitted>>
        /\ batch' = [batch EXCEPT !.results = Append(@, ReportEntry(streamId, outcome))]
        /\ UNCHANGED <<now, isProcessing, drainDue, inflight, models, notificationQueue, supVars, dbVars>>

(* batchProcessStreams returns its results *)
BatchReturn ==
    /\ batch.active
    /\ Len(batch.results) = Len(batch.streamIds)
    /\ batch' = NoBatch
    /\ UNCHANGED <<now, processingQueue, isProcessing, drainDue, inflight, submitted,
                   models, notificationQueue, supVars, dbVars>>

(* AIService.cleanup *)
Cleanup ==
    /\ processingQueue' = <<>>
    /\ models' = {}
    /\ UNCHANGED <<now, isProcessing, drainDue, inflight, submitted, batch,
                   notificationQueue, supVars, dbVars>>

(* the alert handlers of AlertService: the priority each gives to the *)
(* notification it pushes                                             *)
AlertTypes == {"detection", "error", "warning", "critical", "info"}

NotificationPriority(type) ==
    CASE type = "detection" -> "high"
      [] type = "error"     -> "critical"
      [] type = "warning"   -> "medium"
      [] type = "critical"  -> "critical"
      [] OTHER              -> "low"

Notification(type, alert) ==
    [type |-> type, alert |-> alert, timestamp |-> now,
     priority |-> NotificationPriority(type)]

(* priorityOrder[p] || 1 *)
NotificationOrder(p) ==
    CASE p = "critical" -> 4
      [] p = "high"     -> 3
      [] p = "medium"   -> 2
      [] OTHER          -> 1

NotificationCompare(a, b) ==
    IF NotificationOrder(a.priority) # NotificationOrder(b.priority)
    THEN NotificationOrder(b.priority) - NotificationOrder(a.priority)
    ELSE a.timestamp - b.timestamp

RECURSIVE InsertNotification(_, _)
InsertNotification(s, x) ==
    IF s = <<>> THEN <<x>>
    ELSE IF NotificationCompare(x, Head(s)) < 0 THEN <<x>> \o s
    ELSE <<Head(s)>> \o InsertNotification(Tail(s), x)

RECURSIVE SortNotifications(_)
SortNotifications(q) ==
    IF q = <<>> THEN <<>>
    ELSE InsertNotification(SortNotifications(SubSeq(q, 1, Len(q) - 1)), q[Len(q)])

(* what a handler pushes on the queue for the alert it is given *)
HandlerPushes(type, alert) == <<Notification(type, alert)>>

(* a handler of AlertService is called with an alert from outside *)
HandleAlert(type, alert) ==
    /\ Len(notificationQueue) < MaxNotifications
    /\ notificationQueue' = notificationQueue \o HandlerPushes(type, alert)
    /\ UNCHANGED <<now, processingQueue, isProcessing, drainDue, inflight, submitted,
                   models, batch, supVars, dbVars>>

(* the interval of startNotificationProcessing fires: the queue is sorted, *)
(* its head is shifted and processNotification calls the handler of its    *)
(* type with its alert                                                     *)
NotificationTick ==
    /\ notificationQueue # <<>>
    /\ LET sorted == SortNotifications(notificationQueue)
           head == Head(sorted)
       IN  notificationQueue' = Tail(sorted) \o HandlerPushes(head.type, head.alert)
    /\ UNCHANGED <<now, processingQueue, isProcessing, drainDue, inflight, submitted,
                   models, batch, supVars, dbVars>>

AdvanceClock ==
    /\ now < MaxTime
    /\ now' = now + 1
    /\ UNCHANGED <<schedVars, supVars, dbVars>>

-----------------------------------------------------------------------------
(* StreamService: the registry of active streams and their worker threads *)

NoWorker == 0

NoInfo == [present |-> FALSE, startTime |-> NullDate, frameCount |-> 0,
           lastFrame |-> NullDate]

(* settings of a stream as the schema fills them in *)
DefaultSettings == [fps |-> 30, width |-> 1920, height |-> 1080]

(* a StreamWorker: isRunning and the thread's life in state, frameCount,  *)
(* the processFrame calls that wait for a timer, streamData.settings, and *)
(* the delay of processingInterval (0 for null)                           *)
NoThread == [feed |-> "none", state |-> "none", frameCount |-> 0, awaiting |-> 0,
             settings |-> DefaultSettings, interval |-> 0]

NoStatistics == [totalFrames |-> 0, lastProcessed |-> NullDate, uptime |-> 0,
                 errors |-> 0]

Cooldown == 1

(* a call of startStream, stopStream or restartStream that is awaiting *)
Call(op, f, pc, wakeAt, removedAt) ==
    [op |-> op, feed |-> f, pc |-> pc, wakeAt |-> wakeAt, removedAt |-> removedAt]

Enter(c) == calls' = calls (+) SetToBag({c})
Return(c) == calls' = calls (-) SetToBag({c})
Goto(c, d) == calls' = (calls (-) SetToBag({c})) (+) SetToBag({d})

Message(type, frame, n) == [type |-> type, frame |-> frame, n |-> n]

StatusUpdate(status) ==
    [type |-> "status_update", frame |-> 0, n |-> 0, status |-> status]

(* the test made on the stored status instead of the registry *)
AlreadyActiveByStatus(f) == streamStatus[f] = "active"

AlreadyActive(f) == activeStreams[f].present

(* what startStream answers after findById: the stream document it *)
(* returns, or the message of the error it throws                   *)
StartStreamOutcome(f) ==
    IF f \notin Feeds THEN "Stream not found" ELSE "stream"

(* startStream is called: it awaits Stream.findById *)
StartStreamCall(f) ==
    /\ BagCardinality(calls) < MaxCalls
    /\ Enter(Call("start", f, "start_find", 0, 0))
    /\ UNCHANGED <<now, schedVars, activeStreams, workers, thread, created,
                   mailbox, dbVars>>

(* an id for which Stream.findById answers null *)
UnknownFeed == "F0"

(* a not-found test that comes after the worker has been created *)
StartNotFoundLeavesWorker(c) ==
    /\ created < MaxWorkers
    /\ created' = created + 1
    /\ thread' = [thread EXCEPT ![created + 1] = [NoThread EXCEPT
                                                     !.feed = c.feed,
                                                     !.state = "starting"]]
    /\ Goto(c, [c EXCEPT !.pc = "start_rejected"])
    /\ UNCHANGED <<activeStreams, workers>>

(* if (!stream) throw new Error('Stream not found'): the catch logs and *)
(* rethrows, the promise of the call is rejected                         *)
StartNotFound(c) ==
    /\ Goto(c, [c EXCEPT !.pc = "start_rejected"])
    /\ UNCHANGED <<activeStreams, workers, thread, created>>

(* startStream from the answer of findById to the await of stream.save *)
StartStreamResume(c) ==
    LET f == c.feed
        w == created + 1
    IN  /\ c.pc = "start_find"
        /\ IF StartStreamOutcome(f) = "Stream not found"
           THEN StartNotFound(c)
           ELSE IF AlreadyActive(f)
           THEN /\ Return(c)
                /\ UNCHANGED <<activeStreams, workers, thread, created>>
           ELSE /\ created < MaxWorkers
                /\ created' = w
                /\ thread' = [thread EXCEPT ![w] = [NoThread EXCEPT
                                                       !.feed = f,
                                                       !.state = "starting"]]
                /\ workers' = [workers EXCEPT ![f] = w]
                /\ activeStreams' = [activeStreams EXCEPT ![f] =
                                        [present |-> TRUE, startTime |-> now,
                                         frameCount |-> 0, lastFrame |-> NullDate]]
                /\ Goto(c, [c EXCEPT !.pc = "start_save"])
        /\ UNCHANGED <<now, schedVars, mailbox, dbVars>>

(* the caller of a rejected startStream runs its catch block *)
StartStreamRejected(c) ==
    /\ c.pc = "start_rejected"
    /\ Return(c)
    /\ UNCHANGED <<now, schedVars, activeStreams, workers, thread, created,
                   mailbox, dbVars>>

(* stream.save of startStream has written the status; startStream returns *)
StartStreamSaved(c) ==
    /\ c.pc = "start_save"
    /\ streamStatus' = [streamStatus EXCEPT ![c.feed] = "active"]
    /\ Return(c)
    /\ UNCHANGED <<now, schedVars, activeStreams, workers, thread, created,
                   mailbox, results, alerts, statistics>>

(* a stop that terminates the worker and keeps the registry entry *)
StopSyncKeepsEntry(f) ==
    /\ thread' = IF workers[f] # NoWorker
                 THEN [thread EXCEPT ![workers[f]].state = "terminated"]
                 ELSE thread
    /\ workers' = [workers EXCEPT ![f] = NoWorker]
    /\ UNCHANGED activeStreams

(* stopStream up to its await of Stream.findById *)
StopSync(f) ==
    /\ thread' = IF workers[f] # NoWorker
                 THEN [thread EXCEPT ![workers[f]].state =
                          IF @ \in {"starting", "running"} THEN "terminated" ELSE @]
                 ELSE thread
    /\ workers' = [workers EXCEPT ![f] = NoWorker]
    /\ activeStreams' = [activeStreams EXCEPT ![f] = NoInfo]

StopStreamCall(f) ==
    /\ BagCardinality(calls) < MaxCalls
    /\ StopSync(f)
    /\ Enter(Call("stop", f, "stop_find", 0, 0))
    /\ UNCHANGED <<now, schedVars, created, mailbox, dbVars>>

(* restartStream is called: it runs stopStream up to its first await *)
RestartStreamCall(f) ==
    /\ BagCardinality(calls) < MaxCalls
    /\ StopSync(f)
    /\ Enter(Call("restart", f, "stop_find", 0, now))
    /\ UNCHANGED <<now, schedVars, created, mailbox, dbVars>>

(* stopStream has written the status and returns; restartStream then sets *)
(* its timer                                                              *)
StopStreamSaved(c) ==
    /\ c.pc = "stop_find"
    /\ streamStatus' = [streamStatus EXCEPT ![c.feed] = "inactive"]
    /\ IF c.op = "stop"
       THEN Return(c)
       ELSE Goto(c, [c EXCEPT !.pc = "cooldown", !.wakeAt = now + Cooldown])
    /\ UNCHANGED <<now, schedVars, activeStreams, workers, thread, created,
                   mailbox, results, alerts, statistics>>

(* the order in which the registry, a Map, is iterated *)
RegistryOrder == <<"F1", "F2">>

(* the positions of the entries the registry holds *)
Registered == {i \in DOMAIN RegistryOrder : activeStreams[RegistryOrder[i]].present}

FirstRegistered == RegistryOrder[CHOOSE i \in Registered : \A j \in Registered : i <= j]

(* the end of cleanup: every worker left in the map is terminated and *)
(* both maps are cleared                                               *)
CleanupClear ==
    /\ thread' = [w \in WorkerIds |->
                     IF /\ \E f \in Feeds : workers[f] = w
                        /\ thread[w].state \in {"starting", "running"}
                     THEN [thread[w] EXCEPT !.state = "terminated"]
                     ELSE thread[w]]
    /\ workers' = [f \in Feeds |-> NoWorker]
    /\ activeStreams' = [f \in Feeds |-> NoInfo]

(* StreamService.cleanup is called: it runs stopStream for the first *)
(* entry of activeStreams up to its await, or finishes at once        *)
CleanupCall ==
    /\ BagCardinality(calls) < MaxCalls
    /\ IF Registered # {}
       THEN /\ StopSync(FirstRegistered)
            /\ Enter(Call("cleanup", FirstRegistered, "cleanup_find", 0, 0))
       ELSE /\ CleanupClear
            /\ UNCHANGED calls
    /\ UNCHANGED <<now, schedVars, created, mailbox, dbVars>>

(* the stopStream of cleanup has written the status: the loop goes on *)
(* with the entries the map holds now, then cleanup finishes           *)
CleanupSaved(c) ==
    /\ c.pc = "cleanup_find"
    /\ streamStatus' = [streamStatus EXCEPT ![c.feed] = "inactive"]
    /\ IF Registered # {}
       THEN /\ StopSync(FirstRegistered)
            /\ Goto(c, [c EXCEPT !.feed = FirstRegistered])
       ELSE /\ CleanupClear
            /\ Return(c)
    /\ UNCHANGED <<now, schedVars, created, mailbox, results, alerts, statistics>>

(* the timer of restartStream expires: it calls startStream *)
RestartWake(c) ==
    /\ c.pc = "cooldown"
    /\ now >= c.wakeAt
    /\ Goto(c, [c EXCEPT !.pc = "start_find"])
    /\ UNCHANGED <<now, schedVars, activeStreams, workers, thread, created,
                   mailbox, dbVars>>

(* the test updateStream makes before it restarts the stream *)
UpdateRestarts(f) == streamStatus[f] = "active"

(* updateStream is called: it awaits Stream.findById *)
UpdateStreamCall(f) ==
    /\ BagCardinality(calls) < MaxCalls
    /\ Enter(Call("update", f, "update_find", 0, 0))
    /\ UNCHANGED <<now, schedVars, activeStreams, workers, thread, created,
                   mailbox, dbVars>>

(* updateStream after findById: for a stream stored as active it calls *)
(* restartStream, which runs stopStream up to its first await          *)
UpdateStreamResume(c) ==
    /\ c.pc = "update_find"
    /\ IF UpdateRestarts(c.feed)
       THEN /\ StopSync(c.feed)
            /\ Goto(c, Call("restart", c.feed, "stop_find", 0, now))
       ELSE /\ Return(c)
            /\ UNCHANGED <<activeStreams, workers, thread>>
    /\ UNCHANGED <<now, schedVars, created, mailbox, dbVars>>

(* StreamWorker.start in the worker thread *)
(* the delay setInterval runs with: 1000 / fps, and 1 ms for a delay that *)
(* is infinite or negative                                                 *)
IntervalDelay(fps) == IF fps <= 0 THEN 1 ELSE 1000 \div fps

(* captureFrame answers a frame unless Buffer.alloc refuses the size; the *)
(* error is caught there and null returned                                *)
CaptureOk(s) == s.width * s.height * 3 >= 0

WorkerStart(w) ==
    /\ thread[w].state = "starting"
    /\ thread' = [thread EXCEPT ![w].state = "running",
                                ![w].interval = IntervalDelay(thread[w].settings.fps)]
    /\ mailbox' = [mailbox EXCEPT ![w] = Append(@, StatusUpdate("active"))]
    /\ UNCHANGED <<now, schedVars, activeStreams, workers, created, calls, dbVars>>

(* StreamWorker.processFrame: one tick of the worker's interval; aiModels *)
(* is the number of active aiModels, n the detections above 0.8 of a result *)
ProcessFrame(w, aiModels, n) ==
    LET fc == thread[w].frameCount + 1
        ai == IF aiModels > 0 THEN <<Message("ai_result", fc, n)>> ELSE <<>>
        sent == IF CaptureOk(thread[w].settings)
                THEN ai \o <<Message("frame_processed", fc, 0)>>
                ELSE <<>>
    IN  /\ thread[w].state = "running"
        /\ thread[w].frameCount < MaxFrames
        /\ thread' = [thread EXCEPT ![w].frameCount = fc]
        /\ mailbox' = [mailbox EXCEPT ![w] = @ \o sent]
        /\ UNCHANGED <<now, schedVars, activeStreams, workers, created, calls, dbVars>>

(* processFrame of a stream with an active aiModel, up to the timer of    *)
(* simulateAIProcessing: the frame is counted and captured, the call waits *)
FrameTick(w) ==
    /\ thread[w].state = "running"
    /\ thread[w].frameCount < MaxTicks
    /\ thread' = [thread EXCEPT ![w].frameCount = @ + 1,
                                ![w].awaiting = IF CaptureOk(thread[w].settings)
                                                THEN @ + 1 ELSE @]
    /\ UNCHANGED <<now, schedVars, activeStreams, workers, created, mailbox, calls,
                   dbVars>>

(* the timer of simulateAIProcessing expires for one waiting processFrame: *)
(* processWithAIModel and then processFrame post their messages, each with *)
(* the frameCount of that moment                                           *)
FrameDone(w, n) ==
    /\ thread[w].awaiting > 0
    /\ thread[w].state \notin {"terminated", "gone"}
    /\ thread' = [thread EXCEPT ![w].awaiting = @ - 1]
    /\ mailbox' = [mailbox EXCEPT ![w] =
                      @ \o <<Message("ai_result", thread[w].frameCount, n),
                             Message("frame_processed", thread[w].frameCount, 0)>>]
    /\ UNCHANGED <<now, schedVars, activeStreams, workers, created, calls, dbVars>>

(* parentPort.on('message') with type 'stop': StreamWorker.stop *)
WorkerStop(w) ==
    /\ thread[w].state \in {"running", "stopped"}
    /\ Len(SelectSeq(mailbox[w], LAMBDA m : m = StatusUpdate("inactive"))) < MaxStops
    /\ thread' = [thread EXCEPT ![w].state = "stopped", ![w].interval = 0]
    /\ mailbox' = [mailbox EXCEPT ![w] = Append(@, StatusUpdate("inactive"))]
    /\ UNCHANGED <<now, schedVars, activeStreams, workers, created, calls, dbVars>>

handleFrameProcessed(f) ==
    /\ activeStreams' = IF activeStreams[f].present
                        THEN [activeStreams EXCEPT ![f].frameCount = @ + 1,
                                                   ![f].lastFrame = now]
                        ELSE activeStreams
    /\ statistics' = [statistics EXCEPT ![f].totalFrames = @ + 1,
                                        ![f].lastProcessed = now]
    /\ UNCHANGED <<results, alerts, streamStatus>>

(* a handleFrameProcessed call that is awaiting: at frame_find it waits *)
(* for Stream.findById, at frame_save for the save of the document it   *)
(* read, whose totalFrames was read                                      *)
FrameCall(f, pc, read) ==
    [op |-> "frame", feed |-> f, pc |-> pc, wakeAt |-> 0, removedAt |-> 0,
     read |-> read]

(* worker.on('message') for a frame_processed message: handleFrameProcessed *)
(* up to its await of Stream.findById                                       *)
FrameMessage(w) ==
    LET f == thread[w].feed
    IN  /\ mailbox[w] # <<>>
        /\ Head(mailbox[w]).type = "frame_processed"
        /\ BagCardinality(calls) < MaxCalls
        /\ mailbox' = [mailbox EXCEPT ![w] = Tail(@)]
        /\ activeStreams' = IF activeStreams[f].present
                            THEN [activeStreams EXCEPT ![f].frameCount = @ + 1,
                                                       ![f].lastFrame = now]
                            ELSE activeStreams
        /\ Enter(FrameCall(f, "frame_find", 0))
        /\ UNCHANGED <<now, schedVars, workers, thread, created, dbVars>>

(* findById answers with the document as it is stored; updateStatistics *)
(* adds to its fields in memory and calls save                           *)
FrameFind(c) ==
    /\ c.op = "frame"
    /\ c.pc = "frame_find"
    /\ Goto(c, FrameCall(c.feed, "frame_save", statistics[c.feed].totalFrames))
    /\ UNCHANGED <<now, schedVars, activeStreams, workers, thread, created,
                   mailbox, dbVars>>

(* the save writes the fields of the document that were modified *)
FrameSave(c) ==
    /\ c.op = "frame"
    /\ c.pc = "frame_save"
    /\ statistics' = [statistics EXCEPT ![c.feed].totalFrames = c.read + 1,
                                        ![c.feed].lastProcessed = now]
    /\ Return(c)
    /\ UNCHANGED <<now, schedVars, activeStreams, workers, thread, created,
                   mailbox, results, alerts, streamStatus>>

handleAIResult(f, n) ==
    /\ results' = [results EXCEPT ![f] = @ + 1]
    /\ alerts' = IF n > 0 THEN createDetectionAlert(f, n) ELSE alerts
    /\ UNCHANGED <<activeStreams, streamStatus, statistics>>

updateStreamStatus(f, status) ==
    streamStatus' = [streamStatus EXCEPT ![f] = status]

handleStreamError(f) ==
    /\ updateStreamStatus(f, "error")
    /\ alerts' = createSystemAlert(f, "error", "Stream Processing Error", "high")

(* worker.on('message'): handleWorkerMessage for the next message of w *)
HandleWorkerMessage(w) ==
    LET m == Head(mailbox[w])
        f == thread[w].feed
    IN  /\ mailbox[w] # <<>>
        /\ mailbox' = [mailbox EXCEPT ![w] = Tail(@)]
        /\ CASE m.type = "frame_processed" -> handleFrameProcessed(f)
             [] m.type = "ai_result" -> handleAIResult(f, m.n)
             [] m.type = "error" -> /\ handleStreamError(f)
                                    /\ UNCHANGED <<activeStreams, results, statistics>>
             [] OTHER -> /\ updateStreamStatus(f, m.status)
                         /\ UNCHANGED <<activeStreams, results, alerts, statistics>>
        /\ UNCHANGED <<now, schedVars, workers, thread, created, calls>>

(* the thread of a worker fails with an uncaught error: Node emits 'error' *)
(* on the Worker and then 'exit' with code 1                               *)
WorkerCrash(w) ==
    /\ thread[w].state \in {"starting", "running"}
    /\ thread' = [thread EXCEPT ![w].state = "failed"]
    /\ UNCHANGED <<now, schedVars, activeStreams, workers, created, mailbox, calls,
                   dbVars>>

(* worker.on('error') of a failed thread, after the messages it had *)
(* posted; its exit event is still to come                          *)
WorkerError(w) ==
    /\ thread[w].state = "failed"
    /\ mailbox[w] = <<>>
    /\ Len(alerts) < MaxAlerts
    /\ thread' = [thread EXCEPT ![w].state = "terminated"]
    /\ handleStreamError(thread[w].feed)
    /\ UNCHANGED <<now, schedVars, activeStreams, workers, created, mailbox, calls,
                   results, statistics>>

(* worker.on('exit') of a terminated thread, exit code 1, after the *)
(* messages it had posted                                             *)
WorkerExit(w) ==
    /\ thread[w].state = "terminated"
    /\ mailbox[w] = <<>>
    /\ thread' = [thread EXCEPT ![w].state = "gone"]
    /\ handleStreamError(thread[w].feed)
    /\ UNCHANGED <<now, schedVars, activeStreams, workers, created, mailbox, calls,
                   results, statistics>>

-----------------------------------------------------------------------------
(* Health monitoring: StreamService.monitorActiveStreams and *)
(* AlertService.checkForAlerts                                *)

StaleThreshold == 30

UnprocessedThreshold == 300

Unresponsive(info, at) ==
    info.lastFrame # NullDate /\ at - info.lastFrame > StaleThreshold

StaleFeeds == {f \in Feeds : activeStreams[f].present /\ Unresponsive(activeStreams[f], now)}

RECURSIVE SweepAlerts(_, _)
SweepAlerts(fs, acc) ==
    IF fs = {} THEN acc
    ELSE LET f == CHOOSE x \in fs : TRUE
         IN  SweepAlerts(fs \ {f},
                Append(acc, NewAlert(f, "warning", "Stream Unresponsive", "medium")))

(* one pass of monitorActiveStreams over the registry *)
MonitorActiveStreams ==
    /\ Len(alerts) + Cardinality(StaleFeeds) <= MaxAlerts
    /\ alerts' = SweepAlerts(StaleFeeds, alerts)
    /\ statistics' = [f \in Feeds |->
                         IF activeStreams[f].present
                         THEN [statistics[f] EXCEPT !.uptime = now - activeStreams[f].startTime]
                         ELSE statistics[f]]
    /\ UNCHANGED <<now, schedVars, supVars, results, streamStatus>>

(* the period of the interval that calls monitorActiveStreams *)
SweepPeriod == 30

(* the next entry of the registry after position k, 0 at the end *)
NextVisit(k) ==
    LET later == {i \in DOMAIN RegistryOrder :
                     i > k /\ activeStreams[RegistryOrder[i]].present}
    IN  IF later = {} THEN 0 ELSE CHOOSE i \in later : \A j \in later : i <= j

VisitIndex(f) == CHOOSE i \in DOMAIN RegistryOrder : RegistryOrder[i] = f

(* the interval fires and monitorActiveStreams is called: it takes the   *)
(* time (kept in wakeAt) and awaits at its first entry. A pass that is   *)
(* still running was started by an earlier firing, a period ago or more  *)
MonitorTick ==
    /\ BagCardinality(calls) < MaxCalls
    /\ \A c \in BagToSet(calls) : c.op = "monitor" => now - c.wakeAt >= SweepPeriod
    /\ IF NextVisit(0) = 0
       THEN UNCHANGED calls
       ELSE Enter(Call("monitor", RegistryOrder[NextVisit(0)], "sweep_visit", now, 0))
    /\ UNCHANGED <<now, schedVars, activeStreams, workers, thread, created,
                   mailbox, dbVars>>

(* a pass of monitorActiveStreams completes the awaits of one entry: the *)
(* alert of an unresponsive stream and the save of the uptime             *)
MonitorVisit(c) ==
    LET f == c.feed
        info == activeStreams[f]
        stale == info.present /\ Unresponsive(info, c.wakeAt)
        next == NextVisit(VisitIndex(f))
    IN  /\ c.op = "monitor"
        /\ c.pc = "sweep_visit"
        /\ stale => Len(alerts) < MaxAlerts
        /\ alerts' = IF stale
                     THEN Append(alerts, NewAlert(f, "warning", "Stream Unresponsive",
                                                  "medium"))
                     ELSE alerts
        /\ statistics' = IF info.present
                         THEN [statistics EXCEPT ![f].uptime = c.wakeAt - info.startTime]
                         ELSE statistics
        /\ IF next = 0 THEN Return(c)
                       ELSE Goto(c, [c EXCEPT !.feed = RegistryOrder[next]])
        /\ UNCHANGED <<now, schedVars, activeStreams, workers, thread, created,
                       mailbox, results, streamStatus>>

ExistingAlert(f, type, title) ==
    \E i \in DOMAIN alerts :
        /\ alerts[i].streamId = f
        /\ alerts[i].type = type
        /\ alerts[i].title = title
        /\ alerts[i].status = "active"

Overdue(f) ==
    /\ streamStatus[f] = "active"
    /\ statistics[f].lastProcessed # NullDate
    /\ now - statistics[f].lastProcessed > UnprocessedThreshold
    /\ ~ExistingAlert(f, "warning", "Stream Unresponsive")

(* errors / totalFrames > 0.1 *)
HighErrorRate(f) ==
    /\ streamStatus[f] = "active"
    /\ statistics[f].totalFrames > 0
    /\ statistics[f].errors * 10 > statistics[f].totalFrames
    /\ ~ExistingAlert(f, "error", "High Error Rate")

RECURSIVE CheckAlerts(_, _, _, _, _)
CheckAlerts(fs, acc, type, title, severity) ==
    IF fs = {} THEN acc
    ELSE LET f == CHOOSE x \in fs : TRUE
         IN  CheckAlerts(fs \ {f}, Append(acc, NewAlert(f, type, title, severity)),
                         type, title, severity)

(* one run of checkForAlerts *)
CheckForAlerts ==
    LET overdue == {f \in Feeds : Overdue(f)}
        failing == {f \in Feeds : HighErrorRate(f)}
    IN  /\ Len(alerts) + Cardinality(overdue) + Cardinality(failing) <= MaxAlerts
        /\ alerts' = CheckAlerts(failing,
                        CheckAlerts(overdue, alerts, "warning", "Stream Unresponsive",
                                    "medium"),
                        "error", "High Error Rate", "high")
        /\ UNCHANGED <<now, schedVars, supVars, results, streamStatus, statistics>>

(* the clock between two looks at the streams: a sweep period, or a little more *)
ClockSteps == {StaleThreshold, StaleThreshold + 1}

WatchStart == UnprocessedThreshold + 2

AdvanceClockBy(d) ==
    /\ now + d <= WatchStart + MaxWatch
    /\ now' = now + d
    /\ UNCHANGED <<schedVars, supVars, dbVars>>

-----------------------------------------------------------------------------
(* Alert operations: the routes of routes/alerts.js and the methods and *)
(* statics of the Alert model they call                                  *)

AlertSeverities == {"medium", "critical"}

alertFrame == <<schedVars, supVars, results, streamStatus, statistics>>

(* document.save(): the pre('save') hook runs, then the document is written *)
Save(i, a) == alerts' = [alerts EXCEPT ![i] = PreSave(a)]

(* POST /api/alerts *)
CreateAlert(f, severity) ==
    /\ Len(alerts) < MaxStored
    /\ alerts' = Append(alerts, NewAlert(f, "info", "Manual", severity))
    /\ UNCHANGED <<now, alertFrame>>

(* PUT /api/alerts/:id with a severity in the body *)
UpdateAlert(i, severity) ==
    /\ i \in DOMAIN alerts
    /\ Save(i, [alerts[i] EXCEPT !.severity = severity])
    /\ UNCHANGED <<now, alertFrame>>

acknowledge(i) ==
    Save(i, [alerts[i] EXCEPT !.status = "acknowledged", !.acknowledgedAt = now])

resolve(i) ==
    Save(i, [alerts[i] EXCEPT !.status = "resolved", !.resolvedAt = now])

dismiss(i) ==
    Save(i, [alerts[i] EXCEPT !.status = "dismissed"])

(* POST /api/alerts/:id/acknowledge *)
AcknowledgeAlert(i) ==
    /\ i \in DOMAIN alerts
    /\ acknowledge(i)
    /\ UNCHANGED <<now, alertFrame>>

(* POST /api/alerts/:id/resolve *)
ResolveAlert(i) ==
    /\ i \in DOMAIN alerts
    /\ resolve(i)
    /\ UNCHANGED <<now, alertFrame>>

(* POST /api/alerts/:id/dismiss *)
DismissAlert(i) ==
    /\ i \in DOMAIN alerts
    /\ dismiss(i)
    /\ UNCHANGED <<now, alertFrame>>

(* POST /api/alerts/bulk-acknowledge: updateMany, no save hook *)
BulkAcknowledge(ids) ==
    /\ ids # {}
    /\ alerts' = [i \in DOMAIN alerts |->
                     IF i \in ids
                     THEN [alerts[i] EXCEPT !.status = "acknowledged",
                                            !.acknowledgedAt = now]
                     ELSE alerts[i]]
    /\ UNCHANGED <<now, alertFrame>>

(* POST /api/alerts/bulk-resolve: updateMany, no save hook *)
BulkResolve(ids) ==
    /\ ids # {}
    /\ alerts' = [i \in DOMAIN alerts |->
                     IF i \in ids
                     THEN [alerts[i] EXCEPT !.status = "resolved", !.resolvedAt = now]
                     ELSE alerts[i]]
    /\ UNCHANGED <<now, alertFrame>>

(* a null expiresAt compared with every date as if it were the earliest one *)
ExpiredNullFirst(a, at) == a.expiresAt < at

(* { expiresAt: { $lt: new Date() } }: a null expiresAt matches no date *)
Expired(a, at) == a.expiresAt # NullDate /\ a.expiresAt < at

cleanExpiredAlerts ==
    [i \in DOMAIN alerts |->
        IF Expired(alerts[i], now) /\ alerts[i].status \in {"active", "acknowledged"}
        THEN [alerts[i] EXCEPT !.status = "dismissed"]
        ELSE alerts[i]]

(* POST /api/alerts/cleanup *)
CleanExpiredAlerts ==
    /\ alerts' = cleanExpiredAlerts
    /\ UNCHANGED <<now, alertFrame>>

(* the clock between two requests: a second, or the lifetime of an alert *)
AlertClockSteps == {1, ExpirySeconds}

AlertClock(d) ==
    /\ now + d <= MaxDays * ExpirySeconds + MaxTime
    /\ (now + d) % ExpirySeconds <= MaxTime
    /\ now' = now + d
    /\ UNCHANGED <<schedVars, supVars, dbVars>>

-----------------------------------------------------------------------------
Init ==
    /\ now = 1
    /\ processingQueue = <<>>
    /\ isProcessing = FALSE
    /\ drainDue = FALSE
    /\ inflight = {}
    /\ submitted = 0
    /\ models = AvailableModels
    /\ batch = NoBatch
    /\ notificationQueue = <<>>
    /\ results = [f \in Feeds |-> 0]
    /\ alerts = <<>>
    /\ activeStreams = [f \in Feeds |-> NoInfo]
    /\ workers = [f \in Feeds |-> NoWorker]
    /\ thread = [w \in WorkerIds |-> NoThread]
    /\ created = 0
    /\ mailbox = [w \in WorkerIds |-> <<>>]
    /\ calls = EmptyBag
    /\ streamStatus = [f \in Feeds |-> "inactive"]
    /\ statistics = [f \in Feeds |-> NoStatistics]

NextSched ==
    \/ \E f \in QueuedFeeds, p \in StoredPriorities : ProcessStream(f, p)
    \/ DrainTimer
    \/ DrainTick
    \/ \E item \in inflight, o \in {"ok", "failed", "alertFailed"}, n \in 0..MaxDetections :
          ProcessQueueItem(item, o, n)
    \/ AdvanceClock

SpecSched == Init /\ [][NextSched]_vars

NextSup ==
    \/ \E f \in CalledFeeds : StartStreamCall(f)
    \/ \E c \in BagToSet(calls) : StartStreamResume(c)
    \/ \E c \in BagToSet(calls) : StartStreamSaved(c)
    \/ \E f \in CalledFeeds : StopStreamCall(f)
    \/ \E f \in CalledFeeds : RestartStreamCall(f)
    \/ \E c \in BagToSet(calls) : StopStreamSaved(c)
    \/ \E c \in BagToSet(calls) : RestartWake(c)
    \/ \E w \in WorkerIds : WorkerStart(w)
    \/ \E w \in WorkerIds : HandleWorkerMessage(w)
    \/ \E w \in WorkerIds : WorkerExit(w)
    \/ AdvanceClock

SpecSup == Init /\ [][NextSup]_vars

NextMsg ==
    \/ \E f \in CalledFeeds : StartStreamCall(f)
    \/ \E c \in BagToSet(calls) : StartStreamResume(c)
    \/ \E c \in BagToSet(calls) : StartStreamSaved(c)
    \/ \E f \in CalledFeeds : StopStreamCall(f)
    \/ \E c \in BagToSet(calls) : StopStreamSaved(c)
    \/ \E w \in WorkerIds : WorkerStart(w)
    \/ \E w \in WorkerIds, aiModels \in 0..1, n \in 0..MaxDetections :
          ProcessFrame(w, aiModels, n)
    \/ \E w \in WorkerIds : HandleWorkerMessage(w)
    \/ \E w \in WorkerIds : WorkerExit(w)

SpecMsg == Init /\ [][NextMsg]_vars

(* every stream has been started and is running; a stream may have been *)
(* processed in an earlier run of the server                             *)
FeedWorker(f) == IF f = "F1" THEN 1 ELSE 2

InitHealth ==
    /\ now = WatchStart
    /\ processingQueue = <<>>
    /\ isProcessing = FALSE
    /\ drainDue = FALSE
    /\ inflight = {}
    /\ submitted = 0
    /\ models = AvailableModels
    /\ batch = NoBatch
    /\ notificationQueue = <<>>
    /\ results = [f \in Feeds |-> 0]
    /\ alerts = <<>>
    /\ activeStreams = [f \in Feeds |-> [NoInfo EXCEPT !.present = TRUE,
                                                      !.startTime = WatchStart]]
    /\ workers = [f \in Feeds |-> FeedWorker(f)]
    /\ thread = [w \in WorkerIds |->
                    IF \E f \in Feeds : FeedWorker(f) = w
                    THEN [NoThread EXCEPT
                             !.feed = CHOOSE f \in Feeds : FeedWorker(f) = w,
                             !.state = "running",
                             !.interval = IntervalDelay(DefaultSettings.fps)]
                    ELSE NoThread]
    /\ created = Cardinality(Feeds)
    /\ mailbox = [w \in WorkerIds |-> <<>>]
    /\ calls = EmptyBag
    /\ streamStatus = [f \in Feeds |-> "active"]
    /\ statistics \in [Feeds -> {NoStatistics, [NoStatistics EXCEPT !.totalFrames = 1,
                                                                   !.lastProcessed = 1]}]

NextHealth ==
    \/ \E w \in WorkerIds : ProcessFrame(w, 0, 0)
    \/ \E w \in WorkerIds : HandleWorkerMessage(w)
    \/ MonitorActiveStreams
    \/ CheckForAlerts
    \/ \E d \in ClockSteps : AdvanceClockBy(d)

SpecHealth == InitHealth /\ [][NextHealth]_vars

(* the worker threads of running streams; no message is handled yet *)
NextFrames ==
    \/ \E w \in WorkerIds : FrameTick(w)
    \/ \E w \in WorkerIds, n \in 0..MaxDetections : FrameDone(w, n)
    \/ \E w \in WorkerIds : ProcessFrame(w, 0, 0)

SpecFrames == InitHealth /\ [][NextFrames]_vars

(* jobs and the outcomes of their execution *)
NextOutcome ==
    \/ \E f \in QueuedFeeds : ProcessStream(f, "none")
    \/ DrainTimer
    \/ DrainTick
    \/ \E item \in inflight, c \in GivenConfidences, ds \in DetectionLists :
          ProcessOutcome(item, c, ds)
    \/ \E item \in inflight : ProcessQueueItem(item, "failed", 0)

SpecOutcome == Init /\ [][NextOutcome]_vars

(* settings a StreamWorker can be constructed with: the schema gives fps a *)
(* minimum for documents it validates, the resolution has none             *)
WorkerSettings ==
    {[fps |-> f, width |-> x, height |-> 1] : f \in {-1, 0, 1}, x \in {-1, 0, 1}}

(* the thread of F1 has been created and its script has not run start yet *)
InitWorker ==
    /\ now = 1
    /\ processingQueue = <<>>
    /\ isProcessing = FALSE
    /\ drainDue = FALSE
    /\ inflight = {}
    /\ submitted = 0
    /\ models = AvailableModels
    /\ batch = NoBatch
    /\ notificationQueue = <<>>
    /\ results = [f \in Feeds |-> 0]
    /\ alerts = <<>>
    /\ activeStreams = [f \in Feeds |->
                           IF f \in CalledFeeds
                           THEN [NoInfo EXCEPT !.present = TRUE, !.startTime = now]
                           ELSE NoInfo]
    /\ workers = [f \in Feeds |-> IF f \in CalledFeeds THEN FeedWorker(f) ELSE NoWorker]
    /\ \E s \in WorkerSettings :
          thread = [w \in WorkerIds |->
                       IF \E f \in CalledFeeds : FeedWorker(f) = w
                       THEN [NoThread EXCEPT
                                !.feed = CHOOSE f \in CalledFeeds : FeedWorker(f) = w,
                                !.state = "starting",
                                !.settings = s]
                       ELSE NoThread]
    /\ created = Cardinality(CalledFeeds)
    /\ mailbox = [w \in WorkerIds |-> <<>>]
    /\ calls = EmptyBag
    /\ streamStatus = [f \in Feeds |-> "inactive"]
    /\ statistics = [f \in Feeds |-> NoStatistics]

(* one StreamWorker: its start, its ticks and its stop *)
NextWorker ==
    \/ \E w \in WorkerIds : WorkerStart(w)
    \/ \E w \in WorkerIds : ProcessFrame(w, 0, 0)
    \/ \E w \in WorkerIds : FrameTick(w)
    \/ \E w \in WorkerIds, n \in 0..MaxDetections : FrameDone(w, n)
    \/ \E w \in WorkerIds : WorkerStop(w)

SpecWorker == InitWorker /\ [][NextWorker]_vars

(* the health sweep as the interval runs it, among frames and the clock *)
NextSweep ==
    \/ MonitorTick
    \/ \E c \in BagToSet(calls) : MonitorVisit(c)
    \/ \E w \in WorkerIds : ProcessFrame(w, 0, 0)
    \/ \E w \in WorkerIds : HandleWorkerMessage(w)
    \/ \E d \in ClockSteps : AdvanceClockBy(d)

SpecSweep == InitHealth /\ [][NextSweep]_vars

(* the execution of a job settles; results and alerts are stored while *)
(* the bounds of the model have room                                   *)
Settle ==
    \E item \in inflight, o \in {"ok", "failed", "alertFailed"}, n \in 0..MaxDetections :
        /\ o # "alertFailed" => /\ results[item.streamId] < MaxJobs
                                /\ Len(alerts) < MaxAlerts
        /\ ProcessQueueItem(item, o, n)

(* the scheduler under continuing submissions; the interval keeps firing *)
(* and every execution finishes                                          *)
NextBacklog ==
    \/ \E f \in QueuedFeeds, p \in {"none", "low"} : ProcessStreamSteady(f, p)
    \/ DrainTimer
    \/ DrainTick
    \/ Settle

SpecBacklog ==
    /\ Init
    /\ [][NextBacklog]_vars
    /\ WF_vars(DrainTimer)
    /\ WF_vars(DrainTick)
    /\ WF_vars(Settle)

(* starts of known and unknown streams, among stops and worker events *)
NextStart ==
    \/ \E f \in CalledFeeds \cup {UnknownFeed} : StartStreamCall(f)
    \/ \E c \in BagToSet(calls) : StartStreamResume(c)
    \/ \E c \in BagToSet(calls) : StartStreamRejected(c)
    \/ \E c \in BagToSet(calls) : StartStreamSaved(c)
    \/ \E f \in CalledFeeds : StopStreamCall(f)
    \/ \E c \in BagToSet(calls) : StopStreamSaved(c)
    \/ \E w \in WorkerIds : WorkerStart(w)
    \/ \E w \in WorkerIds : HandleWorkerMessage(w)

SpecStart == Init /\ [][NextStart]_vars

(* the two maps of the supervisor under starts, stops, restarts, cleanup *)
(* and the events of the workers                                         *)
NextRegistry ==
    \/ \E f \in CalledFeeds : StartStreamCall(f)
    \/ \E c \in BagToSet(calls) : StartStreamResume(c)
    \/ \E c \in BagToSet(calls) : StartStreamSaved(c)
    \/ \E f \in CalledFeeds : StopStreamCall(f)
    \/ \E f \in CalledFeeds : RestartStreamCall(f)
    \/ \E c \in BagToSet(calls) : StopStreamSaved(c)
    \/ \E c \in BagToSet(calls) : RestartWake(c)
    \/ CleanupCall
    \/ \E c \in BagToSet(calls) : CleanupSaved(c)
    \/ \E w \in WorkerIds : WorkerStart(w)
    \/ \E w \in WorkerIds : WorkerExit(w)
    \/ AdvanceClock

SpecRegistry == Init /\ [][NextRegistry]_vars

(* streams whose workers fail *)
NextCrash ==
    \/ \E f \in CalledFeeds : StartStreamCall(f)
    \/ \E c \in BagToSet(calls) : StartStreamResume(c)
    \/ \E c \in BagToSet(calls) : StartStreamSaved(c)
    \/ \E w \in WorkerIds : WorkerStart(w)
    \/ \E w \in WorkerIds : ProcessFrame(w, 0, 0)
    \/ \E w \in WorkerIds : HandleWorkerMessage(w)
    \/ \E w \in WorkerIds : WorkerCrash(w)
    \/ \E w \in WorkerIds : WorkerError(w)
    \/ \E w \in WorkerIds : WorkerExit(w)
    \/ AdvanceClock

SpecCrash == Init /\ [][NextCrash]_vars

(* the drain of a finite load: the interval keeps firing and every *)
(* execution finishes                                              *)
NextDrain ==
    \/ \E f \in QueuedFeeds : ProcessStream(f, "none")
    \/ DrainTimer
    \/ DrainTick
    \/ Settle

SpecDrain ==
    /\ Init
    /\ [][NextDrain]_vars
    /\ WF_vars(DrainTimer)
    /\ WF_vars(DrainTick)
    /\ WF_vars(Settle)

(* the notification queue of AlertService; its interval keeps firing *)
NextNotify ==
    \/ \E type \in AlertTypes, alert \in 1..MaxNotifications : HandleAlert(type, alert)
    \/ NotificationTick
    \/ AdvanceClock

SpecNotify ==
    /\ Init
    /\ [][NextNotify]_vars
    /\ WF_vars(NotificationTick)

(* running streams whose stored statistics are new *)
InitCounters == InitHealth /\ statistics = [f \in Feeds |-> NoStatistics]

(* the frame events of running workers and their handlers *)
NextCounters ==
    \/ \E w \in WorkerIds : FrameTick(w)
    \/ \E w \in WorkerIds : FrameDone(w, 0)
    \/ \E w \in WorkerIds : FrameMessage(w)
    \/ \E w \in WorkerIds :
          /\ mailbox[w] # <<>>
          /\ Head(mailbox[w]).type # "frame_processed"
          /\ HandleWorkerMessage(w)
    \/ \E c \in BagToSet(calls) : FrameFind(c)
    \/ \E c \in BagToSet(calls) : FrameSave(c)

SpecCounters == InitCounters /\ [][NextCounters]_vars

(* updateStream among starts, stops and the events of the workers *)
NextUpdate ==
    \/ \E f \in CalledFeeds : StartStreamCall(f)
    \/ \E c \in BagToSet(calls) : StartStreamResume(c)
    \/ \E c \in BagToSet(calls) : StartStreamSaved(c)
    \/ \E f \in CalledFeeds : StopStreamCall(f)
    \/ \E c \in BagToSet(calls) : StopStreamSaved(c)
    \/ \E f \in CalledFeeds : UpdateStreamCall(f)
    \/ \E c \in BagToSet(calls) : UpdateStreamResume(c)
    \/ \E c \in BagToSet(calls) : RestartWake(c)
    \/ \E w \in WorkerIds : WorkerStart(w)
    \/ \E w \in WorkerIds : HandleWorkerMessage(w)
    \/ \E w \in WorkerIds : WorkerExit(w)
    \/ AdvanceClock

SpecUpdate == Init /\ [][NextUpdate]_vars

(* jobs submitted for a stream while it is in the registry, and the stream *)
(* started and stopped meanwhile                                           *)
NextJobs ==
    \/ \E f \in CalledFeeds : StartStreamCall(f)
    \/ \E c \in BagToSet(calls) : StartStreamResume(c)
    \/ \E c \in BagToSet(calls) : StartStreamSaved(c)
    \/ \E f \in CalledFeeds : StopStreamCall(f)
    \/ \E c \in BagToSet(calls) : StopStreamSaved(c)
    \/ \E w \in WorkerIds : WorkerExit(w)
    \/ \E f \in CalledFeeds : activeStreams[f].present /\ ProcessStream(f, "none")
    \/ DrainTimer
    \/ DrainTick
    \/ \E item \in inflight, o \in {"ok", "failed"}, n \in 0..MaxDetections :
          ProcessQueueItem(item, o, n)

SpecJobs == Init /\ [][NextJobs]_vars

NextBatch ==
    \/ \E f \in QueuedFeeds, p \in BatchPriorities : ProcessStream(f, p)
    \/ \E ids \in BatchInputs, m \in RequestedModels : BatchProcessStreams(ids, m)
    \/ \E p \in BatchPriorities : BatchStep(p)
    \/ BatchReturn
    \/ DrainTimer
    \/ DrainTick
    \/ \E item \in inflight : ProcessQueueItem(item, "ok", 0)
    \/ Cleanup

SpecBatch == Init /\ [][NextBatch]_vars

NextAlert ==
    \/ \E f \in QueuedFeeds, sev \in AlertSeverities : CreateAlert(f, sev)
    \/ \E i \in DOMAIN alerts, sev \in AlertSeverities : UpdateAlert(i, sev)
    \/ \E i \in DOMAIN alerts : AcknowledgeAlert(i)
    \/ \E i \in DOMAIN alerts : ResolveAlert(i)
    \/ \E i \in DOMAIN alerts : DismissAlert(i)
    \/ \E ids \in SUBSET DOMAIN alerts : BulkAcknowledge(ids)
    \/ \E ids \in SUBSET DOMAIN alerts : BulkResolve(ids)
    \/ CleanExpiredAlerts
    \/ \E d \in AlertClockSteps : AlertClock(d)

SpecAlert == Init /\ [][NextAlert]_vars

(* the requests that never dismiss an alert themselves, and the sweep *)
NextExpiry ==
    \/ \E f \in QueuedFeeds, sev \in AlertSeverities : CreateAlert(f, sev)
    \/ \E i \in DOMAIN alerts : AcknowledgeAlert(i)
    \/ \E i \in DOMAIN alerts : ResolveAlert(i)
    \/ CleanExpiredAlerts
    \/ \E d \in AlertClockSteps : AlertClock(d)

SpecExpiry == Init /\ [][NextExpiry]_vars

-----------------------------------------------------------------------------
(* Properties *)

LiveThreads(f) ==
    {w \in WorkerIds : thread[w].feed = f /\ thread[w].state \in {"starting", "running"}}

(* C1: every stream has at most one running worker thread, and that thread *)
(* is the one the registry holds, with its runtime-state entry             *)
OneWorkerPerFeed ==
    \A f \in Feeds :
        /\ Cardinality(LiveThreads(f)) <= 1
        /\ \A w \in LiveThreads(f) : workers[f] = w /\ activeStreams[f].present

(* two startStream calls for one stream are in progress, one has created the worker *)
ConcurrentStartsSeen ==
    \E c \in BagToSet(calls), d \in BagToSet(calls) :
        /\ c.op = "start" /\ c.pc = "start_save"
        /\ d.op = "start" /\ d.pc = "start_find"
        /\ c.feed = d.feed
        /\ Cardinality(LiveThreads(c.feed)) = 1

(* C2: at no time is more than one queue item being executed, and an item is *)
(* executed only while isProcessing is set                                   *)
AtMostOneJobExecuting ==
    /\ Cardinality(inflight) <= 1
    /\ inflight # {} => isProcessing

(* the drain interval has expired while an item is executing and others wait *)
TickDueWhileExecuting ==
    drainDue /\ isProcessing /\ Cardinality(inflight) = 1 /\ Len(processingQueue) > 0

Popped == inflight' \ inflight

(* C3: when the drain loop pops an item, no item left in the queue has a *)
(* higher priority than the popped one                                   *)
DrainPopsHighestPriority ==
    [][\A j \in Popped : \A k \in DOMAIN processingQueue' :
          PriorityOrder(processingQueue'[k].priority) <= PriorityOrder(j.priority)]_vars

(* low, critical, medium were submitted in that order; the critical item is *)
(* executing and the two others wait                                        *)
CriticalPoppedFirst ==
    /\ \E j \in inflight : j.priority = "critical" /\ j.seq = 2
    /\ Len(processingQueue) = 2
    /\ \E k \in DOMAIN processingQueue :
          processingQueue[k].priority = "low" /\ processingQueue[k].seq = 1
    /\ \E k \in DOMAIN processingQueue :
          processingQueue[k].priority = "medium" /\ processingQueue[k].seq = 3

(* C4: when the drain loop pops an item, every item of the same priority *)
(* left in the queue was submitted after it                              *)
FifoWithinPriority ==
    [][\A j \in Popped : \A k \in DOMAIN processingQueue' :
          processingQueue'[k].priority = j.priority
             => processingQueue'[k].seq > j.seq]_vars

(* an item is executing while a later item of its stream, with the same *)
(* priority and the same timestamp, waits                               *)
EqualTimestampsKeptInOrder ==
    \E j \in inflight : \E k \in DOMAIN processingQueue :
        /\ processingQueue[k].priority = j.priority
        /\ processingQueue[k].streamId = j.streamId
        /\ processingQueue[k].timestamp = j.timestamp
        /\ processingQueue[k].seq > j.seq

TickRuns == drainDue /\ ~drainDue'

PopsOne ==
    /\ Len(processingQueue') = Len(processingQueue) - 1
    /\ Cardinality(inflight') = Cardinality(inflight) + 1

(* C5, as claimed: every tick that finds the queue non-empty removes and *)
(* executes exactly one item; a tick that finds it empty changes nothing *)
EveryTickDrainsOne ==
    [][TickRuns => IF Len(processingQueue) > 0
                   THEN PopsOne
                   ELSE UNCHANGED <<processingQueue, isProcessing, inflight, dbVars>>]_vars

(* C5, amended: a tick that finds the queue non-empty and no item executing *)
(* removes and executes exactly one item; any other tick changes nothing    *)
TickDrainsOneUnlessBusy ==
    [][TickRuns => IF Len(processingQueue) > 0 /\ ~isProcessing
                   THEN PopsOne /\ isProcessing'
                   ELSE UNCHANGED <<processingQueue, isProcessing, inflight, dbVars>>]_vars

(* two items were submitted, a tick has taken one, the other waits *)
OneOfTwoDrained ==
    /\ submitted = 2
    /\ ~drainDue
    /\ isProcessing
    /\ Cardinality(inflight) = 1
    /\ Len(processingQueue) = 1

(* stopStream has returned for f and startStream has not been called since: *)
(* a worker of f existed, the registry holds none, no call for f is awaiting *)
StoppedFeed(f) ==
    /\ \E w \in WorkerIds : thread[w].feed = f
    /\ ~activeStreams[f].present
    /\ \A c \in BagToSet(calls) : c.feed # f

DetectionAlerts(f, as) ==
    {i \in DOMAIN as : as[i].streamId = f /\ as[i].type = "detection"}

(* C6: once stopStream has returned for a stream, no result is saved and no *)
(* detection alert is created for it until it is started again             *)
NoResultAfterStop ==
    [][\A f \in Feeds :
          StoppedFeed(f) =>
             /\ results'[f] = results[f]
             /\ Cardinality(DetectionAlerts(f, alerts')) =
                   Cardinality(DetectionAlerts(f, alerts))]_vars

(* C7: between the stop and the start of a restartStream call nothing else *)
(* puts the stream back into the registry                                  *)
RestartExclusive ==
    \A c \in BagToSet(calls) :
        c.op = "restart" /\ c.pc \in {"stop_find", "cooldown", "start_find"}
           => ~activeStreams[c.feed].present /\ workers[c.feed] = NoWorker

(* C8: while and after restartStream waits, the worker that serves the   *)
(* stream was started at least the cooldown after restartStream removed  *)
(* the old one                                                           *)
CooldownBeforeNewWorker ==
    \A c \in BagToSet(calls) :
        c.op = "restart" /\ activeStreams[c.feed].present
           => activeStreams[c.feed].startTime >= c.removedAt + Cooldown

(* C9: no two active alerts have the same stream and title *)
OneActiveAlertPerKey ==
    \A i \in DOMAIN alerts : \A j \in DOMAIN alerts :
        /\ alerts[i].status = "active"
        /\ alerts[j].status = "active"
        /\ alerts[i].streamId = alerts[j].streamId
        /\ alerts[i].title = alerts[j].title
        => i = j

UnresponsiveAlertsSince(f, t) ==
    {i \in DOMAIN alerts : /\ alerts[i].streamId = f
                           /\ alerts[i].title = "Stream Unresponsive"
                           /\ alerts[i].timestamp > t}

(* C10: since the last frame of a stream, the sweep has raised at most one *)
(* unresponsive alert for it                                               *)
OneAlertPerStaleEpisode ==
    \A f \in Feeds :
        activeStreams[f].present /\ activeStreams[f].lastFrame # NullDate
           => Cardinality(UnresponsiveAlertsSince(f, activeStreams[f].lastFrame)) <= 1

TerminalStatuses == {"resolved", "dismissed"}

(* C11: an alert that is resolved or dismissed keeps its status, and an *)
(* acknowledged alert never becomes active again                        *)
StatusOnlyMovesForward ==
    [][\A i \in DOMAIN alerts :
          /\ alerts[i].status \in TerminalStatuses
                => alerts'[i].status = alerts[i].status
          /\ alerts[i].status = "acknowledged" => alerts'[i].status # "active"]_vars

LegalPredecessors(status) ==
    CASE status = "acknowledged" -> {"active"}
      [] status = "resolved" -> {"active", "acknowledged"}
      [] status = "dismissed" -> {"active"}

(* C12: acknowledge, resolve or dismiss requested for an alert whose status *)
(* is no legal predecessor leaves the alert as it was                       *)
IllegalRequestChangesNothing ==
    [][\A i \in DOMAIN alerts :
          /\ AcknowledgeAlert(i) /\ alerts[i].status \notin LegalPredecessors("acknowledged")
                => alerts'[i] = alerts[i]
          /\ ResolveAlert(i) /\ alerts[i].status \notin LegalPredecessors("resolved")
                => alerts'[i] = alerts[i]
          /\ DismissAlert(i) /\ alerts[i].status \notin LegalPredecessors("dismissed")
                => alerts'[i] = alerts[i]]_vars

(* C13: a critical alert has no expiry, every other alert expires 24 hours *)
(* after its creation                                                      *)
ExpiryFixedAtCreation ==
    \A i \in DOMAIN alerts :
        IF alerts[i].severity = "critical"
        THEN alerts[i].expiresAt = NullDate
        ELSE alerts[i].expiresAt = alerts[i].timestamp + ExpirySeconds

SweepDue(a) ==
    /\ a.expiresAt # NullDate
    /\ a.expiresAt < now
    /\ a.status \in {"active", "acknowledged"}

(* C14: the sweep dismisses the alerts whose expiry has passed and that are *)
(* active or acknowledged, and changes no other alert; an alert is newly    *)
(* dismissed only if it was due, and never when it is critical              *)
SweepDismissesExactlyDue ==
    [][\A i \in DOMAIN alerts :
          /\ CleanExpiredAlerts /\ SweepDue(alerts[i])
                => alerts'[i] = [alerts[i] EXCEPT !.status = "dismissed"]
          /\ CleanExpiredAlerts /\ ~SweepDue(alerts[i]) => alerts'[i] = alerts[i]
          /\ alerts'[i].status = "dismissed" /\ alerts[i].status # "dismissed"
                => SweepDue(alerts[i]) /\ alerts[i].severity # "critical"]_vars

SweptAfterAcknowledge ==
    \E i \in DOMAIN alerts :
        /\ alerts[i].status = "dismissed"
        /\ alerts[i].acknowledgedAt # NullDate
        /\ alerts[i].expiresAt < now

(* C15: the queue never holds more jobs than the configured capacity *)
QueueBounded == Len(processingQueue) <= QueueCapacity

(* C16: every entry batchProcessStreams adds to its report is for the next *)
(* id of its input, its success flag is the answer processStream gives for *)
(* that id, an accepted id is appended to the queue and a refused one      *)
(* leaves the queue as it was; it returns with one entry per id            *)
BatchReportFaithful ==
    [][/\ batch.active /\ batch'.active /\ Len(batch'.results) = Len(batch.results) + 1
          => LET k == Len(batch'.results)
                 e == batch'.results[k]
                 n == Len(processingQueue)
             IN  /\ SubSeq(batch'.results, 1, k - 1) = batch.results
                 /\ e.streamId = batch.streamIds[k]
                 /\ e.success =
                       (ProcessStreamOutcome(batch.streamIds[k], batch.modelType) = "queued")
                 /\ IF e.success
                    THEN /\ Len(processingQueue') = n + 1
                         /\ SubSeq(processingQueue', 1, n) = processingQueue
                         /\ processingQueue'[n + 1].streamId = e.streamId
                    ELSE processingQueue' = processingQueue
       /\ batch.active /\ ~batch'.active
          => /\ Len(batch.results) = Len(batch.streamIds)
             /\ processingQueue' = processingQueue]_vars

PartialBatchKeepsAccepted ==
    /\ batch.active
    /\ Len(batch.results) = 2
    /\ batch.results[1].success
    /\ ~batch.results[2].success
    /\ \E k \in DOMAIN processingQueue :
          processingQueue[k].streamId = batch.results[1].streamId

(* C17: a job leaves the queue only by being handed to processQueueItem *)
QueuedJobsLeaveByExecution ==
    [][\A k \in DOMAIN processingQueue :
          (\A j \in DOMAIN processingQueue' : processingQueue'[j] # processingQueue[k])
             => /\ processingQueue[k] \in inflight'
                /\ processingQueue[k] \notin inflight]_vars

FrameEvents(w) == SelectSeq(mailbox[w], LAMBDA m : m.type = "frame_processed")

(* C18: the frame events a worker has posted carry the numbers 1, 2, 3, ... *)
(* in this order                                                            *)
FrameNumbersGapFree ==
    \A w \in WorkerIds :
        \A k \in 1..Len(FrameEvents(w)) : FrameEvents(w)[k].frame = k

(* C19: startStream for a stream that is in the registry answers with the *)
(* error AlreadyActive, creates no worker and leaves the registry as it is *)
SecondStartRefused ==
    [][\A c \in BagToSet(calls) :
          StartStreamResume(c) /\ AlreadyActive(c.feed)
             => /\ StartStreamOutcome(c.feed) = "AlreadyActive"
                /\ created' = created
                /\ activeStreams' = activeStreams
                /\ workers' = workers]_vars

(* C20: stopStream leaves the stream out of both maps with its worker     *)
(* terminated and stores the status inactive; called for a stream that is *)
(* in neither map it changes no map and no worker, and its save leaves a  *)
(* status that is already inactive as it is                               *)
StopIdempotent ==
    [][/\ \A f \in CalledFeeds :
            StopStreamCall(f)
               => /\ ~activeStreams'[f].present
                  /\ workers'[f] = NoWorker
                  /\ workers[f] # NoWorker
                        => thread'[workers[f]].state \notin {"starting", "running"}
                  /\ ~activeStreams[f].present /\ workers[f] = NoWorker
                        => /\ activeStreams' = activeStreams
                           /\ workers' = workers
                           /\ thread' = thread
       /\ \A c \in BagToSet(calls) :
            c.op = "stop" /\ StopStreamSaved(c)
               => /\ streamStatus'[c.feed] = "inactive"
                  /\ activeStreams' = activeStreams
                  /\ workers' = workers
                  /\ thread' = thread
                  /\ streamStatus[c.feed] = "inactive" => streamStatus' = streamStatus]_vars

SecondStopWhileFirstSaves ==
    \E c \in BagToSet(calls) :
        /\ c.op = "stop"
        /\ CopiesIn(c, calls) = 2
        /\ \E w \in WorkerIds : thread[w].feed = c.feed /\ thread[w].state = "terminated"
        /\ ~activeStreams[c.feed].present

AllEventsHandled(f) ==
    \A w \in WorkerIds :
        thread[w].feed = f => thread[w].state = "gone" /\ mailbox[w] = <<>>

(* C21: once stopStream has returned for a stream and every event of its *)
(* worker has been handled, the stored status is inactive and the stream  *)
(* has no error alert                                                     *)
StoppedFeedStaysInactive ==
    \A f \in Feeds :
        StoppedFeed(f) /\ AllEventsHandled(f)
           => /\ streamStatus[f] = "inactive"
              /\ \A i \in DOMAIN alerts :
                    ~(alerts[i].streamId = f /\ alerts[i].type = "error")

OutcomeAlerts(f, as) ==
    {i \in DOMAIN as : /\ as[i].streamId = f
                       /\ \/ as[i].type = "detection"
                          \/ as[i].title = "AI Processing Error"}

(* C22: while a stopped stream is out of the registry, the outcome of a job *)
(* of that stream creates no alert                                          *)
OutcomeOfStoppedFeedDropped ==
    [][\A f \in Feeds :
          StoppedFeed(f)
             => Cardinality(OutcomeAlerts(f, alerts')) =
                   Cardinality(OutcomeAlerts(f, alerts))]_vars

(* C23: updateStream restarts the stream exactly when the stream is in the *)
(* registry; otherwise it changes neither the registry nor any worker      *)
UpdateRestartsIffRegistered ==
    [][\A c \in BagToSet(calls) :
          UpdateStreamResume(c)
             => /\ UpdateRestarts(c.feed) <=> activeStreams[c.feed].present
                /\ ~activeStreams[c.feed].present
                      => /\ activeStreams' = activeStreams
                         /\ workers' = workers
                         /\ thread' = thread
                         /\ \A d \in BagToSet(calls') : d.op # "restart"]_vars

(* the confidence threshold in force for a job: the one its request gave, *)
(* or the default of the model                                            *)
ConfiguredThreshold(c) == IF c.given THEN c.value ELSE DefaultConfidence

(* C24: an outcome with detections above the configured threshold creates *)
(* one detection alert, high for more than 5 such detections and medium   *)
(* otherwise; an outcome with none creates no alert; a failure creates an *)
(* error alert of severity high                                           *)
OutcomeAlertsFollowThreshold ==
    [][\A item \in inflight :
          /\ \A c \in GivenConfidences, ds \in DetectionLists :
                ProcessOutcome(item, c, ds)
                   => LET above == SelectSeq(ds, LAMBDA d : d > ConfiguredThreshold(c))
                          last == alerts'[Len(alerts')]
                      IN  IF Len(above) > 0
                          THEN /\ Len(alerts') = Len(alerts) + 1
                               /\ last.type = "detection"
                               /\ last.streamId = item.streamId
                               /\ last.severity =
                                     IF Len(above) > 5 THEN "high" ELSE "medium"
                          ELSE alerts' = alerts
          /\ ProcessQueueItem(item, "failed", 0)
                => /\ Len(alerts') = Len(alerts) + 1
                   /\ alerts'[Len(alerts')].type = "error"
                   /\ alerts'[Len(alerts')].severity = "high"]_vars


(* C25: a stream whose last frame is more than 30 time units old gets, at *)
(* the health sweep, an unresponsive warning alert of critical severity   *)
StaleWorkerAlertCritical ==
    [][MonitorActiveStreams
          => \A f \in StaleFeeds :
                \E i \in (Len(alerts) + 1)..Len(alerts') :
                    /\ alerts'[i].streamId = f
                    /\ alerts'[i].type = "warning"
                    /\ alerts'[i].title = "Stream Unresponsive"
                    /\ alerts'[i].severity = "critical"]_vars


SeverityRank(s) ==
    CASE s = "low" -> 0 [] s = "medium" -> 1 [] s = "high" -> 2 [] OTHER -> 3

(* C26: no step lowers the severity of an alert that is active before and *)
(* after the step                                                         *)
ActiveSeverityNeverDecreases ==
    [][\A i \in DOMAIN alerts :
          (i \in DOMAIN alerts' /\ alerts[i].status = "active"
                                /\ alerts'[i].status = "active"
                                /\ alerts'[i].streamId = alerts[i].streamId
                                /\ alerts'[i].title = alerts[i].title)
             => SeverityRank(alerts'[i].severity) >= SeverityRank(alerts[i].severity)]_vars


(* the messages a step of worker w posts *)
Posted(w) == SubSeq(mailbox'[w], Len(mailbox[w]) + 1, Len(mailbox'[w]))

(* C27: a tick whose capture fails posts an error event to the supervisor *)
CaptureFailureReported ==
    [][\A w \in WorkerIds :
          (thread'[w].frameCount = thread[w].frameCount + 1
              /\ ~CaptureOk(thread[w].settings))
             => \E i \in DOMAIN Posted(w) : Posted(w)[i].type = "error"]_vars

(* C28: every result of a model for a frame is posted after the frame *)
(* event of that frame                                                *)
FrameEventBeforeJobs ==
    \A w \in WorkerIds :
        \A j \in DOMAIN mailbox[w] :
            mailbox[w][j].type = "ai_result"
               => \E i \in 1..(j - 1) :
                     /\ mailbox[w][i].type = "frame_processed"
                     /\ mailbox[w][i].frame = mailbox[w][j].frame

InvalidSettings(s) == s.fps <= 0 \/ s.width <= 0 \/ s.height <= 0

(* C29: a worker whose fps or resolution is not positive never runs: it *)
(* is not active, has no interval and posts no frame and no result      *)
InvalidSettingsNeverRun ==
    \A w \in WorkerIds :
        (thread[w].state # "none" /\ InvalidSettings(thread[w].settings))
           => /\ thread[w].state # "running"
              /\ thread[w].interval = 0
              /\ \A i \in DOMAIN mailbox[w] :
                    mailbox[w][i].type \notin {"frame_processed", "ai_result"}

(* C30: a stopped worker posts nothing more: neither a second stop nor a *)
(* tick that was running when it stopped                                 *)
StoppedWorkerSilent ==
    [][\A w \in WorkerIds :
          thread[w].state = "stopped" => mailbox'[w] = mailbox[w]]_vars


MonitorCalls == {c \in BagToSet(calls) : c.op = "monitor"}

(* C31: at most one pass of the health sweep is in progress at any time *)
SweepNeverOverlaps ==
    /\ Cardinality(MonitorCalls) <= 1
    /\ \A c \in MonitorCalls : CopiesIn(c, calls) <= 1


BacklogSignalled ==
    \E i \in DOMAIN alerts : alerts[i].title = "Queue Backlog"

(* C32: if from some time on the queue stays longer than the soft        *)
(* watermark, a queue backlog alert is eventually raised                 *)
BacklogEventuallySignalled ==
    <>[](Len(processingQueue) > SoftWatermark) => <>BacklogSignalled


(* C33: when startStream for an id that findById does not know leaves  *)
(* its await, the call is rejected with the not-found error and the    *)
(* registry, the workers and the stored statuses are unchanged         *)
UnknownStartRejected ==
    [][\A c \in BagToSet(calls) :
          (c.op = "start" /\ c.pc = "start_find" /\ c.feed \notin Feeds
              /\ CopiesIn(c, calls') < CopiesIn(c, calls))
             => /\ StartStreamOutcome(c.feed) = "Stream not found"
                /\ CopiesIn([c EXCEPT !.pc = "start_rejected"], calls')
                      > CopiesIn([c EXCEPT !.pc = "start_rejected"], calls)
                /\ UNCHANGED <<activeStreams, workers, thread, created,
                               streamStatus, alerts>>]_vars

UnknownStartSeen ==
    \E c \in BagToSet(calls) :
        c.op = "start" /\ c.pc = "start_rejected" /\ c.feed \notin Feeds


(* C34: a stream is a key of the workers map exactly when it is a key of *)
(* the activeStreams map                                                 *)
RegistriesAgree ==
    \A f \in Feeds : (workers[f] # NoWorker) <=> activeStreams[f].present

StartDuringCleanup ==
    \E c \in BagToSet(calls) :
        /\ c.op = "cleanup"
        /\ activeStreams[c.feed].present
        /\ workers[c.feed] # NoWorker


(* C35: the worker of a registered stream has not exited: once the exit *)
(* of a failed worker has been handled its stream is not registered     *)
RegisteredWorkerAlive ==
    \A f \in Feeds : workers[f] # NoWorker => thread[workers[f]].state # "gone"

FailedWorkers(f) ==
    {w \in WorkerIds : thread[w].feed = f
                          /\ thread[w].state \in {"failed", "terminated", "gone"}}

ProcessingErrorAlerts(f) ==
    {i \in DOMAIN alerts : alerts[i].streamId = f
                              /\ alerts[i].title = "Stream Processing Error"}

(* C36: a stream has at most one processing error alert for each of its *)
(* workers that failed                                                  *)
OneAlertPerFailure ==
    \A f \in Feeds :
        Cardinality(ProcessingErrorAlerts(f)) <= Cardinality(FailedWorkers(f))


(* C37: whenever the drain flag is set it is reset later, whatever the *)
(* outcome of the job                                                  *)
DrainSlotReleased == isProcessing ~> ~isProcessing

FailedJobReleased ==
    /\ ~isProcessing
    /\ inflight = {}
    /\ \E i \in DOMAIN alerts : alerts[i].title = "AI Processing Error"


Waiting(k) == \E i \in DOMAIN processingQueue : processingQueue[i].seq = k

(* C38: every job in the queue leaves it for execution, whatever is *)
(* submitted after it                                               *)
EveryJobEventuallyExecuted ==
    \A k \in 1..(MaxQueued + 2) : Waiting(k) ~> ~Waiting(k)


(* C39: processing a notification takes it off the queue and puts *)
(* nothing back, so every tick on a queue that is not empty       *)
(* shortens it by one                                             *)
NotificationTickShortensQueue ==
    [][NotificationTick => Len(notificationQueue') = Len(notificationQueue) - 1]_vars


FrameCalls(f) == {c \in BagToSet(calls) : c.op = "frame" /\ c.feed = f}

(* C40: when every handler of a frame event of a stream has finished, *)
(* the stored totalFrames of the stream is the number of frame events *)
(* handled for it                                                     *)
FrameCountersExact ==
    \A f \in Feeds :
        FrameCalls(f) = {} => statistics[f].totalFrames = activeStreams[f].frameCount

=============================================================================
